---- MODULE Spec2Model ----
(***************************************************************************)
(* Model of pharmaquizz.py, a Streamlit quiz script.                       *)
(*                                                                         *)
(* The script body runs from top to bottom on every UI event; the only     *)
(* state that survives a run is st.session_state.  One action of Spec is   *)
(* one run of the script: it receives at most one widget event, and it     *)
(* ends at the last line, at st.stop() or at st.rerun().  After st.rerun() *)
(* the browser still displays the widgets the run did not draw again, and  *)
(* the next run receives the event of a widget used meanwhile.             *)
(*                                                                         *)
(* SpecPure applies the pure helpers (normalize_text, get_override_url,    *)
(* get_image_url) and the two CSV loaders to inputs drawn from bounded     *)
(* sets.  There a Python str is a sequence of Unicode code points.         *)
(***************************************************************************)
EXTENDS Integers, Sequences, FiniteSets, TLC

VARIABLES
    quiz_file,      \* what QUIZ_CSV_PATH holds (fixed for the process)
    image_file,     \* what IMAGE_CSV_PATH holds (fixed for the process)
    session_state,  \* st.session_state: a map from key to value
    pending,        \* the last run ended with st.rerun()
    page,           \* the widgets the browser displays
    screen,         \* the page of the main area the last run rendered
    event,          \* the widget event the last run received
    did,            \* the branches of the last run that wrote the session
    results,        \* the metrics the last run displayed on the results page
    shown,          \* the error and warning messages the last run displayed
    pure_fn,        \* SpecPure: the helper that is applied
    pure_arg,       \* SpecPure: its arguments
    pure_ret        \* SpecPure: its result

vars == <<quiz_file, image_file, session_state, pending, page, screen, event,
          did, results, shown, pure_fn, pure_arg, pure_ret>>

ui_vars == <<quiz_file, image_file, session_state, pending, page, screen, event,
             did, results, shown>>
pure_vars == <<pure_fn, pure_arg, pure_ret>>

----------------------------------------------------------------------------
(* Bounds of the model.                                                    *)

\* longest string handed to normalize_text
MaxLen == 3

----------------------------------------------------------------------------
(* Python values of the pure helpers: a str is [t |-> "str", v |-> code    *)
(* points]; None and float('nan') carry an empty v.                        *)

PyStr(s) == [t |-> "str", v |-> s]
PyNone == [t |-> "none", v |-> << >>]
PyNaN == [t |-> "nan", v |-> << >>]

IsStr(x) == x.t = "str"

\* bool(x): None and '' are falsy, a non-empty str and nan are truthy
PyTruthy(x) ==
    CASE x.t = "none" -> FALSE
      [] x.t = "str" -> x.v # << >>
      [] OTHER -> TRUE

\* str(x) of a value that is not None
PyToStr(x) == IF x.t = "nan" THEN <<110, 97, 110>> ELSE x.v

\* str.isspace() of one code point below U+0100
IsSpace(c) == c \in {9, 10, 11, 12, 13, 28, 29, 30, 31, 32, 133, 160}

RECURSIVE LStrip(_)
LStrip(s) ==
    IF s # << >> /\ IsSpace(Head(s)) THEN LStrip(Tail(s)) ELSE s

RECURSIVE RStrip(_)
RStrip(s) ==
    IF s # << >> /\ IsSpace(s[Len(s)]) THEN RStrip(SubSeq(s, 1, Len(s) - 1)) ELSE s

\* str.strip()
Strip(s) == RStrip(LStrip(s))

\* str.lower() of one code point below U+0100
LowerChar(c) ==
    IF (65 <= c /\ c <= 90) \/ (192 <= c /\ c <= 222 /\ c # 215) THEN c + 32 ELSE c

\* str.lower()
Lower(s) == [i \in 1..Len(s) |-> LowerChar(s[i])]

\* str.upper() of one code point below U+0100 (the sharp s gives 'SS')
UpperChar(c) ==
    IF c = 223 THEN <<83, 83>>
    ELSE IF c = 255 THEN <<376>>
    ELSE IF c = 181 THEN <<924>>
    ELSE IF (97 <= c /\ c <= 122) \/ (224 <= c /\ c <= 254 /\ c # 247) THEN <<c - 32>>
    ELSE <<c>>

\* a <= b on Python strings: lexicographic by code point
RECURSIVE StrLe(_, _)
StrLe(a, b) ==
    IF a = << >> THEN TRUE
    ELSE IF b = << >> THEN FALSE
    ELSE IF Head(a) # Head(b) THEN Head(a) < Head(b)
    ELSE StrLe(Tail(a), Tail(b))

\* unicodedata.normalize('NFKD', chr(c)) for the code points 0..255: the
\* decomposition of the Latin-1 letters and signs that have one; every other
\* code point below 256 is left as it is
NFKDChar(c) ==
    CASE c = 160 -> <<32>>                  \* no-break space
      [] c = 168 -> <<32, 776>>             \* diaeresis
      [] c = 170 -> <<97>>                  \* feminine ordinal indicator
      [] c = 175 -> <<32, 772>>             \* macron
      [] c = 178 -> <<50>>                  \* superscript two
      [] c = 179 -> <<51>>                  \* superscript three
      [] c = 180 -> <<32, 769>>             \* acute accent
      [] c = 181 -> <<956>>                 \* micro sign
      [] c = 184 -> <<32, 807>>             \* cedilla
      [] c = 185 -> <<49>>                  \* superscript one
      [] c = 186 -> <<111>>                 \* masculine ordinal indicator
      [] c = 188 -> <<49, 8260, 52>>        \* vulgar fraction one quarter
      [] c = 189 -> <<49, 8260, 50>>        \* vulgar fraction one half
      [] c = 190 -> <<51, 8260, 52>>        \* vulgar fraction three quarters
      [] c = 192 -> <<65, 768>>             \* latin capital letter a with grave
      [] c = 193 -> <<65, 769>>             \* latin capital letter a with acute
      [] c = 194 -> <<65, 770>>             \* latin capital letter a with circumflex
      [] c = 195 -> <<65, 771>>             \* latin capital letter a with tilde
      [] c = 196 -> <<65, 776>>             \* latin capital letter a with diaeresis
      [] c = 197 -> <<65, 778>>             \* latin capital letter a with ring above
      [] c = 199 -> <<67, 807>>             \* latin capital letter c with cedilla
      [] c = 200 -> <<69, 768>>             \* latin capital letter e with grave
      [] c = 201 -> <<69, 769>>             \* latin capital letter e with acute
      [] c = 202 -> <<69, 770>>             \* latin capital letter e with circumflex
      [] c = 203 -> <<69, 776>>             \* latin capital letter e with diaeresis
      [] c = 204 -> <<73, 768>>             \* latin capital letter i with grave
      [] c = 205 -> <<73, 769>>             \* latin capital letter i with acute
      [] c = 206 -> <<73, 770>>             \* latin capital letter i with circumflex
      [] c = 207 -> <<73, 776>>             \* latin capital letter i with diaeresis
      [] c = 209 -> <<78, 771>>             \* latin capital letter n with tilde
      [] c = 210 -> <<79, 768>>             \* latin capital letter o with grave
      [] c = 211 -> <<79, 769>>             \* latin capital letter o with acute
      [] c = 212 -> <<79, 770>>             \* latin capital letter o with circumflex
      [] c = 213 -> <<79, 771>>             \* latin capital letter o with tilde
      [] c = 214 -> <<79, 776>>             \* latin capital letter o with diaeresis
      [] c = 217 -> <<85, 768>>             \* latin capital letter u with grave
      [] c = 218 -> <<85, 769>>             \* latin capital letter u with acute
      [] c = 219 -> <<85, 770>>             \* latin capital letter u with circumflex
      [] c = 220 -> <<85, 776>>             \* latin capital letter u with diaeresis
      [] c = 221 -> <<89, 769>>             \* latin capital letter y with acute
      [] c = 224 -> <<97, 768>>             \* latin small letter a with grave
      [] c = 225 -> <<97, 769>>             \* latin small letter a with acute
      [] c = 226 -> <<97, 770>>             \* latin small letter a with circumflex
      [] c = 227 -> <<97, 771>>             \* latin small letter a with tilde
      [] c = 228 -> <<97, 776>>             \* latin small letter a with diaeresis
      [] c = 229 -> <<97, 778>>             \* latin small letter a with ring above
      [] c = 231 -> <<99, 807>>             \* latin small letter c with cedilla
      [] c = 232 -> <<101, 768>>            \* latin small letter e with grave
      [] c = 233 -> <<101, 769>>            \* latin small letter e with acute
      [] c = 234 -> <<101, 770>>            \* latin small letter e with circumflex
      [] c = 235 -> <<101, 776>>            \* latin small letter e with diaeresis
      [] c = 236 -> <<105, 768>>            \* latin small letter i with grave
      [] c = 237 -> <<105, 769>>            \* latin small letter i with acute
      [] c = 238 -> <<105, 770>>            \* latin small letter i with circumflex
      [] c = 239 -> <<105, 776>>            \* latin small letter i with diaeresis
      [] c = 241 -> <<110, 771>>            \* latin small letter n with tilde
      [] c = 242 -> <<111, 768>>            \* latin small letter o with grave
      [] c = 243 -> <<111, 769>>            \* latin small letter o with acute
      [] c = 244 -> <<111, 770>>            \* latin small letter o with circumflex
      [] c = 245 -> <<111, 771>>            \* latin small letter o with tilde
      [] c = 246 -> <<111, 776>>            \* latin small letter o with diaeresis
      [] c = 249 -> <<117, 768>>            \* latin small letter u with grave
      [] c = 250 -> <<117, 769>>            \* latin small letter u with acute
      [] c = 251 -> <<117, 770>>            \* latin small letter u with circumflex
      [] c = 252 -> <<117, 776>>            \* latin small letter u with diaeresis
      [] c = 253 -> <<121, 769>>            \* latin small letter y with acute
      [] c = 255 -> <<121, 776>>            \* latin small letter y with diaeresis
      [] OTHER -> <<c>>

RECURSIVE NFKD(_)
NFKD(s) == IF s = << >> THEN << >> ELSE NFKDChar(Head(s)) \o NFKD(Tail(s))

\* s.encode('ASCII', 'ignore').decode('ASCII')
AsciiIgnore(s) == SelectSeq(s, LAMBDA c : c < 128)

\* the body of normalize_text for a str
\* (a variant that forgets .lower())
NormalizeStrNoLower(s) == Strip(AsciiIgnore(NFKD(s)))
NormalizeStr(s) == Strip(Lower(AsciiIgnore(NFKD(s))))

normalize_text(text) ==
    IF ~IsStr(text) THEN << >> ELSE NormalizeStr(text.v)

----------------------------------------------------------------------------
(* get_override_url: the hardcoded rule table.  URLs are opaque strings;   *)
(* None is the sentinel "<None>".                                          *)

None == "<None>"

Antibiotiques == <<65, 110, 116, 105, 98, 105, 111, 116, 105, 113, 117, 101, 115>>
Sirop == <<83, 105, 114, 111, 112>>
Suppositoires == <<83, 117, 112, 112, 111, 115, 105, 116, 111, 105, 114, 101, 115>>
comprime == <<99, 111, 109, 112, 114, 105, 109, 101>>
sachet == <<115, 97, 99, 104, 101, 116>>
sirop == <<115, 105, 114, 111, 112>>

UrlAntibiotiquesComprime == "base/Antibiotiques/Antiobiotiques%20Comprimes.jpg"
UrlAntibiotiquesSachet == "base/Antibiotiques/Antibiotiques%20Sachet.jpg"
UrlAntibiotiquesSirop == "base/Antibiotiques/Antibiotiques%20Sirop.jpg"
UrlSirop == "base/Sirops/Sirop%20Tout.jpg"
UrlSuppositoires == "base/Suppositoires/Suppositoires.jpeg"
UrlSuppositoires2 == "base/Suppositoires/Suppositoires%202.jpeg"

\* (a variant that compares the first letter as it is written)
get_override_url_as_written(category, sheet, med_name) ==
    LET cat == IF PyTruthy(category) THEN Strip(PyToStr(category)) ELSE << >>
        med == IF PyTruthy(med_name) THEN Strip(PyToStr(med_name)) ELSE << >>
        sheet_lower == IF PyTruthy(sheet) THEN Lower(Strip(PyToStr(sheet))) ELSE << >>
        first == IF med # << >> THEN <<med[1]>> ELSE << >>
    IN  IF cat = Antibiotiques /\ sheet_lower = comprime THEN UrlAntibiotiquesComprime
        ELSE IF cat = Antibiotiques /\ sheet_lower = sachet THEN UrlAntibiotiquesSachet
        ELSE IF cat = Antibiotiques /\ sheet_lower = sirop THEN UrlAntibiotiquesSirop
        ELSE IF cat = Sirop THEN UrlSirop
        ELSE IF cat = Suppositoires /\ StrLe(<<65>>, first) /\ StrLe(first, <<78>>)
            THEN UrlSuppositoires
        ELSE IF cat = Suppositoires /\ first # << >> THEN UrlSuppositoires2
        ELSE None

get_override_url(category, sheet, med_name) ==
    LET cat == IF PyTruthy(category) THEN Strip(PyToStr(category)) ELSE << >>
        med == IF PyTruthy(med_name) THEN Strip(PyToStr(med_name)) ELSE << >>
        sheet_lower == IF PyTruthy(sheet) THEN Lower(Strip(PyToStr(sheet))) ELSE << >>
        first == IF med # << >> THEN UpperChar(med[1]) ELSE << >>
    IN  IF cat = Antibiotiques /\ sheet_lower = comprime THEN UrlAntibiotiquesComprime
        ELSE IF cat = Antibiotiques /\ sheet_lower = sachet THEN UrlAntibiotiquesSachet
        ELSE IF cat = Antibiotiques /\ sheet_lower = sirop THEN UrlAntibiotiquesSirop
        ELSE IF cat = Sirop THEN UrlSirop
        ELSE IF cat = Suppositoires /\ StrLe(<<65>>, first) /\ StrLe(first, <<78>>)
            THEN UrlSuppositoires
        ELSE IF cat = Suppositoires /\ first # << >> THEN UrlSuppositoires2
        ELSE None

----------------------------------------------------------------------------
(* get_image_url: the override first, then the lookup in the image table.  *)
(* An image table is a sequence of rows [category, filename, raw_url].     *)

\* the positions of code point c in s
Positions(s, c) == {i \in 1..Len(s) : s[i] = c}

SetMax(S) == CHOOSE m \in S : \A x \in S : x <= m

\* df_images['filename'].str.extract(r'([^/]+)\.[^.]*$').fillna(''):
\* the text between the last '/' before the last '.' and that '.'
FilenameStem(filename) ==
    IF ~IsStr(filename) \/ Positions(filename.v, 46) = {} THEN << >>
    ELSE LET s == filename.v
             d == SetMax(Positions(s, 46))
             slashes == {i \in Positions(s, 47) : i < d}
             q == IF slashes = {} THEN 0 ELSE SetMax(slashes)
         IN  IF q + 1 <= d - 1 THEN SubSeq(s, q + 1, d - 1) ELSE << >>

\* the rows of the image table that match, in table order
MatchingRows(df_images, category, med_name) ==
    SelectSeq(df_images, LAMBDA row :
        /\ normalize_text(row.category) = normalize_text(category)
        /\ normalize_text(PyStr(FilenameStem(row.filename))) = normalize_text(med_name))

LookupImageUrl(df_images, category, med_name) ==
    IF df_images = << >> \/ ~PyTruthy(med_name) \/ ~PyTruthy(category) THEN None
    ELSE LET img_row == MatchingRows(df_images, category, med_name)
         IN  IF img_row # << >> THEN img_row[1].raw_url ELSE None

get_image_url_lookup_first(df_images, category, sheet, med_name) ==
    LET found == LookupImageUrl(df_images, category, med_name)
    IN  IF found # None THEN found ELSE get_override_url(category, sheet, med_name)

get_image_url(df_images, category, sheet, med_name) ==
    LET override == get_override_url(category, sheet, med_name)
    IN  IF override # None THEN override
        ELSE LookupImageUrl(df_images, category, med_name)

----------------------------------------------------------------------------
(* The CSV loaders.  A path is described by what reading it does:          *)
(* [exists, utf8, utf8_sig, columns, rows], where utf8 and utf8_sig are    *)
(* the outcome of pd.read_csv with that encoding: "ok" or the exception    *)
(* it raises.  A loader's outcome is [kind, columns, rows, shown, reads]:  *)
(* kind "df" (a table is returned), "none" (None is returned) or "raise"   *)
(* (an exception leaves the function); shown lists the messages displayed  *)
(* and reads the encodings tried.                                          *)

ReadOutcomes == {"ok", "UnicodeDecodeError", "ParserError"}

QuizRequired == {"Category", "Sheet", "MedicationName", "Question", "CorrectAnswer"}
QuizOptional == {"Option_1", "Option_2", "Option_3", "Option_4", "Option_5"}
ImageRequired == {"category", "filename", "raw_url"}

\* the inner try statement: read as utf-8; on UnicodeDecodeError read again
\* as utf-8-sig (an exception of that second read leaves the try statement);
\* any other exception is reported and ends the loader with its fallback
TryRead(path, failed_msg) ==
    IF path.utf8 = "ok"
    THEN [kind |-> "df", shown |-> << >>, reads |-> <<"utf-8">>]
    ELSE IF path.utf8 = "UnicodeDecodeError"
    THEN IF path.utf8_sig = "ok"
         THEN [kind |-> "df", shown |-> << >>, reads |-> <<"utf-8", "utf-8-sig">>]
         ELSE [kind |-> "raise", shown |-> << >>, reads |-> <<"utf-8", "utf-8-sig">>]
    ELSE [kind |-> "fallback", shown |-> <<failed_msg>>, reads |-> <<"utf-8">>]

\* (a variant that does not look at the columns)
LoadBodyAnyColumns(path, required, missing_msg, failed_msg, columns_msg) ==
    IF ~path.exists
    THEN [kind |-> "fallback", shown |-> <<missing_msg>>, reads |-> << >>]
    ELSE TryRead(path, failed_msg)

\* the body of the outer try statement of either loader
LoadBody(path, required, missing_msg, failed_msg, columns_msg) ==
    IF ~path.exists
    THEN [kind |-> "fallback", shown |-> <<missing_msg>>, reads |-> << >>]
    ELSE LET read == TryRead(path, failed_msg)
         IN  IF read.kind # "df" THEN read
             ELSE IF ~(required \subseteq path.columns)
             THEN [kind |-> "fallback", shown |-> <<columns_msg>>, reads |-> read.reads]
             ELSE read

\* (a variant without the outer "except Exception")
CatchNothing(body, error_msg) == body

\* the outer "except Exception as e": report and end with the fallback
CatchAtLoadBoundary(body, error_msg) ==
    IF body.kind = "raise"
    THEN [kind |-> "fallback", shown |-> body.shown \o <<error_msg>>, reads |-> body.reads]
    ELSE body

load_quiz_data(path) ==
    LET out == CatchAtLoadBoundary(
                   LoadBody(path, QuizRequired, "Quiz data CSV not found",
                            "Failed to load quiz CSV with specified encodings",
                            "CSV missing required columns"),
                   "Failed to load/parse quiz CSV")
    IN  CASE out.kind = "df" ->
               [kind |-> "df", columns |-> path.columns, rows |-> path.rows,
                shown |-> out.shown, reads |-> out.reads]
          [] out.kind = "fallback" ->
               [kind |-> "none", columns |-> {}, rows |-> << >>,
                shown |-> out.shown, reads |-> out.reads]
          [] OTHER ->
               [kind |-> "raise", columns |-> {}, rows |-> << >>,
                shown |-> out.shown, reads |-> out.reads]

load_image_data(path) ==
    LET out == CatchAtLoadBoundary(
                   LoadBody(path, ImageRequired, "Image data CSV not found",
                            "Failed to load image CSV with specified encodings",
                            "Image CSV missing required columns"),
                   "Error loading image CSV")
    IN  CASE out.kind = "df" ->
               [kind |-> "df", columns |-> path.columns, rows |-> path.rows,
                shown |-> out.shown, reads |-> out.reads]
          [] out.kind = "fallback" ->
               [kind |-> "df", columns |-> ImageRequired, rows |-> << >>,
                shown |-> out.shown, reads |-> out.reads]
          [] OTHER ->
               [kind |-> "raise", columns |-> {}, rows |-> << >>,
                shown |-> out.shown, reads |-> out.reads]

----------------------------------------------------------------------------
(* The quiz table and the session.  In the UI flow a cell is an opaque     *)
(* string: the script only compares cells and tests them for emptiness.    *)
(* A quiz table is a sequence of rows [Category, Sheet, MedicationName,    *)
(* Question, CorrectAnswer, Options], Options being Option_1..Option_5.    *)

\* the cells used as categories and sheets, in the order sorted() gives
CellOrder == <<"", "A", "B", "s1", "s2">>

\* sorted(column.unique())
SortedUnique(cells) == SelectSeq(CellOrder, LAMBDA c : c \in cells)

Range(f) == {f[x] : x \in DOMAIN f}

\* bool(cell) of a cell or None
Truthy(v) == v # None /\ v # ""

\* the keys of st.session_state and their defaults
default_values ==
    [selected_category |-> None,
     selected_sheet |-> None,
     question_index |-> 0,
     answers |-> << >>,
     show_result |-> FALSE,
     current_quiz_df |-> << >>,
     current_quiz_options |-> << >>,
     quiz_loaded |-> FALSE]

HasKeys(ss) == DOMAIN ss # {}

\* st.session_state.setdefault(key, default_value) for every key
SetDefaults(ss) == IF HasKeys(ss) THEN ss ELSE default_values

\* d[k] = v on a dict
DictPut(d, k, v) == [x \in (DOMAIN d) \cup {k} |-> IF x = k THEN v ELSE d[x]]

\* the orders random.shuffle and df.sample(frac=1) may draw for a list of
\* n items: the permutations of 1..n
Perms(n) == {p \in [1..n -> 1..n] : \A i, j \in 1..n : p[i] = p[j] => i = j}

\* the draw that leaves a list as it is
Identity(n) == [i \in 1..n |-> i]

\* seq in the order the draw rnd gives; a draw of fewer items than seq has
\* (used only to find out how long the list is) leaves seq as it is
OrderBy(seq, rnd) ==
    LET p == SelectSeq(rnd, LAMBDA k : k <= Len(seq))
    IN  IF Len(p) < Len(seq) THEN seq ELSE [i \in 1..Len(seq) |-> seq[p[i]]]

\* a UI event: the widget that was used, its new value, and for the widgets
\* with a key per question (submit_<i>, nav_<i>) the index in the key
Ev(type, value, index) == [type |-> type, value |-> value, index |-> index]
NoEvent == Ev("rerun", None, 0)

\* what a section of the script hands on: the session, whether it called
\* st.rerun(), the messages it displayed, the length of the list it handed
\* to the random generator (0: none), and the branches it took that write
\* the session
Go(ss) == [ss |-> ss, rerun |-> FALSE, shown |-> {}, drawn |-> 0, did |-> {}]
Rerun(ss, branch) ==
    [ss |-> ss, rerun |-> TRUE, shown |-> {}, drawn |-> 0, did |-> {branch}]

----------------------------------------------------------------------------
(* The sidebar.                                                            *)

categories_of(df_all) == SortedUnique({df_all[i].Category : i \in DOMAIN df_all})

available_sheets_of(df_all, category) ==
    SortedUnique({df_all[i].Sheet : i \in {j \in DOMAIN df_all : df_all[j].Category = category}})

\* what the category selectbox shows when the user leaves it alone
CategoryShown(categories, selected_category) ==
    IF categories = << >> THEN None
    ELSE IF selected_category \in Range(categories) THEN selected_category
    ELSE categories[1]

\* the category-change branch: adopt the category, reset what depends on it
ResetOnCategoryChange(ss, selected_cat) ==
    [ss EXCEPT !.selected_category = selected_cat,
               !.selected_sheet = None,
               !.current_quiz_df = << >>,
               !.question_index = 0,
               !.answers = << >>,
               !.show_result = FALSE,
               !.current_quiz_options = << >>,
               !.quiz_loaded = FALSE]

\* what the category selectbox returns: the entry the event chose, or the
\* entry it shows
SelectedCat(categories, ss, ev) ==
    IF ev.type = "select_category" /\ ev.value \in Range(categories)
    THEN ev.value
    ELSE CategoryShown(categories, ss.selected_category)

SidebarCategory(df_all, ss, ev) ==
    IF SelectedCat(categories_of(df_all), ss, ev) # ss.selected_category
    THEN Rerun(ResetOnCategoryChange(ss, SelectedCat(categories_of(df_all), ss, ev)),
               "select_category")
    ELSE Go(ss)

SheetPlaceholder == "-- Select Sheet --"

\* the auto-select branch: one sheet only, and not yet the selected one
AutoSelectSheet(ss, sheet) ==
    [ss EXCEPT !.selected_sheet = sheet,
               !.current_quiz_df = << >>,
               !.question_index = 0,
               !.answers = << >>,
               !.show_result = FALSE,
               !.current_quiz_options = << >>,
               !.quiz_loaded = FALSE]

\* (a variant of the sheet-change branch that keeps the answers and options)
KeepAnswersOnSheetChange(ss, new_selected_sheet) ==
    [ss EXCEPT !.selected_sheet = new_selected_sheet,
               !.current_quiz_df = << >>,
               !.question_index = 0,
               !.show_result = FALSE,
               !.quiz_loaded = FALSE]

\* the sheet-change branch
ResetOnSheetChange(ss, new_selected_sheet) ==
    [ss EXCEPT !.selected_sheet = new_selected_sheet,
               !.current_quiz_df = << >>,
               !.question_index = 0,
               !.answers = << >>,
               !.show_result = FALSE,
               !.current_quiz_options = << >>,
               !.quiz_loaded = FALSE]

\* what the sheet selectbox shows when the user leaves it alone
SheetShown(sheet_options, selected_sheet) ==
    IF Truthy(selected_sheet) /\ selected_sheet \in Range(sheet_options)
    THEN selected_sheet
    ELSE sheet_options[1]

\* the options of the sheet selectbox; none when it is not drawn
SheetOptions(df_all, ss) ==
    IF Truthy(ss.selected_category)
       /\ Len(available_sheets_of(df_all, ss.selected_category)) > 1
    THEN <<SheetPlaceholder>> \o available_sheets_of(df_all, ss.selected_category)
    ELSE << >>

\* what the sheet selectbox returns: the entry the event chose when the
\* selectbox of this run has it, or the entry it shows
SelectedSheetOption(sheet_options, ss, ev) ==
    IF ev.type = "select_sheet" /\ ev.value \in Range(sheet_options)
    THEN ev.value
    ELSE SheetShown(sheet_options, ss.selected_sheet)

\* the selectbox of a category with several sheets, after the auto-select
SheetSelectbox(sheet_options, ss, ev) ==
    IF (IF SelectedSheetOption(sheet_options, ss, ev) # SheetPlaceholder
        THEN SelectedSheetOption(sheet_options, ss, ev) ELSE None) # ss.selected_sheet
    THEN Rerun(ResetOnSheetChange(ss,
                   IF SelectedSheetOption(sheet_options, ss, ev) # SheetPlaceholder
                   THEN SelectedSheetOption(sheet_options, ss, ev) ELSE None),
               "select_sheet")
    ELSE Go(ss)

SidebarSheet(df_all, ss, ev) ==
    IF ~Truthy(ss.selected_category) THEN Go(ss)
    ELSE LET available_sheets == available_sheets_of(df_all, ss.selected_category)
         IN  IF Len(available_sheets) > 1
             THEN SheetSelectbox(<<SheetPlaceholder>> \o available_sheets, ss, ev)
             ELSE IF Len(available_sheets) = 1
             THEN IF ss.selected_sheet # available_sheets[1]
                  THEN [Go(AutoSelectSheet(ss, available_sheets[1])) EXCEPT
                            !.did = {"auto_select"}]
                  ELSE Go(ss)
             ELSE [Go([ss EXCEPT !.selected_sheet = None]) EXCEPT
                       !.shown = {"No sheets found for this category."}]

start_disabled(ss) == ~(Truthy(ss.selected_category) /\ Truthy(ss.selected_sheet))

\* (a variant that filters by the category only)
FilteredByCategory(df_all, ss) ==
    SelectSeq(df_all, LAMBDA row : row.Category = ss.selected_category)

\* the rows of the selected category and sheet, in table order
Filtered(df_all, ss) ==
    SelectSeq(df_all, LAMBDA row :
        row.Category = ss.selected_category /\ row.Sheet = ss.selected_sheet)

\* the branch of a pressed Load / Restart Quiz button that finds questions
LoadQuiz(ss, filtered, rnd) ==
    [ss EXCEPT !.current_quiz_df = OrderBy(filtered, rnd),
               !.question_index = 0,
               !.answers = << >>,
               !.show_result = FALSE,
               !.current_quiz_options = << >>,
               !.quiz_loaded = TRUE]

\* st.sidebar.button("Load / Restart Quiz", disabled=start_disabled): True in
\* the run that receives its click, whatever start_disabled is in that run
LoadButton(df_all, ss, ev, rnd) ==
    IF ev.type # "load" THEN Go(ss)
    ELSE IF Truthy(ss.selected_category) /\ Truthy(ss.selected_sheet)
    THEN LET filtered == Filtered(df_all, ss)
         IN  IF filtered # << >>
             THEN [ss |-> LoadQuiz(ss, filtered, rnd), rerun |-> TRUE,
                   shown |-> {}, drawn |-> Len(filtered), did |-> {"load"}]
             ELSE [ss |-> [ss EXCEPT !.quiz_loaded = FALSE], rerun |-> FALSE,
                   shown |-> {"No questions found for this selection."},
                   drawn |-> 0, did |-> {"load_refused"}]
    ELSE [ss |-> [ss EXCEPT !.quiz_loaded = FALSE], rerun |-> FALSE,
          shown |-> {"Please select both category and sheet."},
          drawn |-> 0, did |-> {"load_refused"}]

----------------------------------------------------------------------------
(* The main area: the question loop, the results page, the welcome text.   *)

\* row i of a DataFrame (df.iloc[i], i from 0)
Iloc(df, i) == df[i + 1]

\* [opt for opt in options if pd.notna(opt) and opt]
NonEmptyOptions(question_data) == SelectSeq(question_data.Options, LAMBDA opt : opt # "")

\* pd.Series(s).drop_duplicates(): the first occurrence of each value
RECURSIVE DropDuplicates(_)
DropDuplicates(s) ==
    IF s = << >> THEN << >>
    ELSE LET init == DropDuplicates(SubSeq(s, 1, Len(s) - 1))
             last == s[Len(s)]
         IN  IF last \in Range(init) THEN init ELSE Append(init, last)

\* (a variant that appends the correct answer without removing duplicates)
AllOptionsKeepDuplicates(question_data) ==
    Append(NonEmptyOptions(question_data), question_data.CorrectAnswer)

\* the options and the correct answer, unique, before the shuffle
AllOptions(question_data) ==
    DropDuplicates(Append(NonEmptyOptions(question_data), question_data.CorrectAnswer))

\* (a variant that generates the option list on every pass)
WithOptionsEveryPass(ss, rnd) ==
    [ss EXCEPT !.current_quiz_options =
        DictPut(@, ss.question_index,
                OrderBy(AllOptions(Iloc(ss.current_quiz_df, ss.question_index)), rnd))]

\* the option list of the current question: generated and shuffled when the
\* index has no entry yet, else the stored list
WithOptions(ss, rnd) ==
    LET current_q_index == ss.question_index
    IN  IF current_q_index \notin DOMAIN ss.current_quiz_options
        THEN [ss EXCEPT !.current_quiz_options =
                 DictPut(@, current_q_index,
                         OrderBy(AllOptions(Iloc(ss.current_quiz_df, current_q_index)), rnd))]
        ELSE ss

\* the length of the list WithOptions shuffles
OptionsDrawn(ss) ==
    IF ss.question_index \in DOMAIN ss.current_quiz_options THEN 0
    ELSE Len(AllOptions(Iloc(ss.current_quiz_df, ss.question_index)))

PreviousDisabled(current_q_index) == current_q_index <= 0
NextDisabled(current_q_index, total_questions) == current_q_index >= total_questions - 1

\* st.session_state.answers.get(current_q_index)
PreviousAnswer(ss) ==
    IF ss.question_index \in DOMAIN ss.answers
    THEN ss.answers[ss.question_index] ELSE None

\* the option the radio starts with: the stored answer when the option list
\* has it (default_index), else none (index=None)
RadioDefault(ss) ==
    IF PreviousAnswer(ss) \in Range(ss.current_quiz_options[ss.question_index])
    THEN PreviousAnswer(ss) ELSE None

\* what st.radio returns: the option the user chose, or the one it started
\* with
UserChoice(ss, ev) ==
    IF ev.value \in Range(ss.current_quiz_options[ss.question_index])
    THEN ev.value ELSE RadioDefault(ss)

\* the feedback column: the answer stored for this question is wrong
Feedback(ss) ==
    IF ss.question_index \in DOMAIN ss.answers
       /\ ss.answers[ss.question_index]
            # Iloc(ss.current_quiz_df, ss.question_index).CorrectAnswer
    THEN {"Incorrect! The correct answer is"}
    ELSE {}

\* (a variant of Submit Answer that ends the quiz with the last answer)
SubmitAndFinish(ss, user_choice) ==
    LET answered == [ss EXCEPT !.answers = DictPut(@, ss.question_index, user_choice)]
    IN  IF Cardinality(DOMAIN answered.answers) = Len(ss.current_quiz_df)
        THEN [answered EXCEPT !.show_result = TRUE]
        ELSE answered

\* (a variant of Submit Answer that moves on to the next question)
SubmitAndAdvance(ss, user_choice) ==
    [ss EXCEPT !.answers = DictPut(@, ss.question_index, user_choice),
               !.question_index = IF @ + 1 < Len(ss.current_quiz_df) THEN @ + 1 ELSE @]

\* a pressed Submit Answer button
SubmitAnswer(ss, user_choice) ==
    [ss EXCEPT !.answers = DictPut(@, ss.question_index, user_choice)]

NoResults == [correct_count |-> 0, incorrect_count |-> 0, unanswered_count |-> 0, total |-> 0]

\* (a variant that compares every stored answer with every row)
CorrectCountAnyRow(df, answers) ==
    Cardinality({<<i, j>> \in (DOMAIN answers) \X (0..Len(df) - 1) :
                    answers[i] = Iloc(df, j).CorrectAnswer})

\* (a variant that counts a question without an answer as incorrect)
IncorrectCountUnanswered(df, answers) ==
    Cardinality({i \in 0..Len(df) - 1 :
                    i \notin DOMAIN answers \/ answers[i] # Iloc(df, i).CorrectAnswer})

\* the loop of the results page over range(total)
CorrectCount(df, answers) ==
    Cardinality({i \in 0..Len(df) - 1 :
                    i \in DOMAIN answers /\ answers[i] = Iloc(df, i).CorrectAnswer})

IncorrectCount(df, answers) ==
    Cardinality({i \in 0..Len(df) - 1 :
                    i \in DOMAIN answers /\ answers[i] # Iloc(df, i).CorrectAnswer})

Metrics(ss) ==
    [correct_count |-> CorrectCount(ss.current_quiz_df, ss.answers),
     incorrect_count |-> IncorrectCount(ss.current_quiz_df, ss.answers),
     unanswered_count |-> Len(ss.current_quiz_df) - Cardinality(DOMAIN ss.answers),
     total |-> Len(ss.current_quiz_df)]

\* (a variant of Start New Quiz that keeps the answers)
StartNewQuizKeepAnswers(ss, rnd) ==
    [ss EXCEPT !.current_quiz_df = OrderBy(@, rnd),
               !.question_index = 0,
               !.show_result = FALSE,
               !.current_quiz_options = << >>,
               !.quiz_loaded = TRUE]

\* Start New Quiz (Same Settings)
StartNewQuiz(ss, rnd) ==
    [ss EXCEPT !.current_quiz_df = OrderBy(@, rnd),
               !.question_index = 0,
               !.answers = << >>,
               !.show_result = FALSE,
               !.current_quiz_options = << >>,
               !.quiz_loaded = TRUE]

\* (a variant of Change Settings that also forgets the category and sheet)
ChangeSettingsAndSelection(ss) ==
    [ss EXCEPT !.question_index = 0,
               !.answers = << >>,
               !.show_result = FALSE,
               !.current_quiz_df = << >>,
               !.current_quiz_options = << >>,
               !.quiz_loaded = FALSE,
               !.selected_category = None,
               !.selected_sheet = None]

\* Change Settings and Start New Quiz
ChangeSettings(ss) ==
    [ss EXCEPT !.question_index = 0,
               !.answers = << >>,
               !.show_result = FALSE,
               !.current_quiz_df = << >>,
               !.current_quiz_options = << >>,
               !.quiz_loaded = FALSE]

----------------------------------------------------------------------------
(* The widgets a run draws.  `rendered` names the groups of widgets the    *)
(* run reached before it ended; the other fields describe them.            *)

NoWidgets ==
    [rendered |-> {},
     cat |-> FALSE, cat_value |-> None,           \* the category selectbox
     sheet_options |-> << >>, sheet_value |-> None, \* the sheet selectbox
     load |-> "none",                             \* Load / Restart Quiz
     question |-> -1, options |-> << >>,          \* the radio and Submit Answer
     choice |-> None,
     previous |-> "none", next |-> "none",        \* Previous, Next
     nav |-> 0,                                   \* the Go-to buttons
     finish |-> FALSE,                            \* Finish Quiz
     results |-> FALSE]                           \* the two result buttons

Able(disabled) == IF disabled THEN "disabled" ELSE "enabled"

\* the question page down to the widget whose handler ended the run:
\* level 1 the radio and Submit Answer, 2 Previous, 3 Next, 4 the Go-to
\* buttons, 5 Finish Quiz (the whole page); buttons is the number of Go-to
\* buttons the loop drew before the run ended.  The radio takes the place
\* the result buttons have on the results page
DrawQuestion(ss, choice, level, buttons) ==
    [NoWidgets EXCEPT
        !.rendered = {"radio", "results"}
                     \cup (IF level >= 2 THEN {"previous"} ELSE {})
                     \cup (IF level >= 3 THEN {"next"} ELSE {})
                     \cup (IF level >= 4 THEN {"nav"} ELSE {})
                     \cup (IF level >= 5 THEN {"finish"} ELSE {}),
        !.question = ss.question_index,
        !.options = ss.current_quiz_options[ss.question_index],
        !.choice = choice,
        !.previous = IF level >= 2 THEN Able(PreviousDisabled(ss.question_index))
                     ELSE "none",
        !.next = IF level >= 3
                 THEN Able(NextDisabled(ss.question_index, Len(ss.current_quiz_df)))
                 ELSE "none",
        !.nav = IF level >= 4 THEN buttons ELSE 0,
        !.finish = level >= 5]

\* the results page down to its two buttons
DrawResults == [NoWidgets EXCEPT !.rendered = {"results"}, !.results = TRUE]

\* what the main area hands on: as a section, with the page it rendered, the
\* metrics it displayed and the widgets it drew
Render(ss, name, metrics, drawn, messages, widgets) ==
    [ss |-> ss, rerun |-> FALSE, shown |-> messages, drawn |-> drawn, did |-> {},
     screen |-> name, results |-> metrics, widgets |-> widgets]
Restart(ss, branch, name, metrics, drawn, messages, widgets) ==
    [ss |-> ss, rerun |-> TRUE, shown |-> messages, drawn |-> drawn,
     did |-> {branch}, screen |-> name, results |-> metrics, widgets |-> widgets]

\* the radio and the buttons below it, ss holding the options of the
\* question.  A button is True in the run that receives its click, whatever
\* `disabled` is in that run; Submit Answer and the Go-to buttons have the
\* question index in their key
\* (the loop of the Go-to buttons ends at the button that was clicked, so
\* the run drew the buttons up to and including that one)
QuestionButtons(ss, ev, n) ==
    IF ev.type = "submit" /\ ev.index = ss.question_index
    THEN Restart(SubmitAnswer(ss, UserChoice(ss, ev)), "submit", "question",
                 NoResults, n, Feedback(ss), DrawQuestion(ss, UserChoice(ss, ev), 1, 0))
    ELSE IF ev.type = "previous"
    THEN Restart([ss EXCEPT !.question_index = @ - 1], "previous", "question",
                 NoResults, n, Feedback(ss), DrawQuestion(ss, RadioDefault(ss), 2, 0))
    ELSE IF ev.type = "next"
    THEN Restart([ss EXCEPT !.question_index = @ + 1], "next", "question",
                 NoResults, n, Feedback(ss), DrawQuestion(ss, RadioDefault(ss), 3, 0))
    ELSE IF ev.type = "goto" /\ ev.index \in 0..Len(ss.current_quiz_df) - 1
    THEN Restart([ss EXCEPT !.question_index = ev.index], "goto", "question",
                 NoResults, n, Feedback(ss), DrawQuestion(ss, RadioDefault(ss), 4, ev.index + 1))
    ELSE IF ev.type = "finish"
    THEN Restart([ss EXCEPT !.show_result = TRUE], "finish", "question",
                 NoResults, n, Feedback(ss),
                 DrawQuestion(ss, RadioDefault(ss), 5, Len(ss.current_quiz_df)))
    ELSE Render(ss, "question", NoResults, n, Feedback(ss),
                DrawQuestion(ss, RadioDefault(ss), 5, Len(ss.current_quiz_df)))

QuestionPage(ss, ev, rnd) ==
    IF 0 <= ss.question_index /\ ss.question_index < Len(ss.current_quiz_df)
    THEN QuestionButtons(WithOptions(ss, rnd), ev, OptionsDrawn(ss))
    ELSE Restart([ss EXCEPT !.question_index = 0, !.quiz_loaded = FALSE],
                 "invalid_index", "invalid", NoResults, 0,
                 {"Invalid question index. Restarting quiz selection."}, NoWidgets)

ResultsPage(ss, ev, rnd) ==
    IF ev.type = "start_new"
    THEN Restart(StartNewQuiz(ss, rnd), "start_new", "results", Metrics(ss),
                 Len(ss.current_quiz_df), {}, DrawResults)
    ELSE IF ev.type = "change_settings"
    THEN Restart(ChangeSettings(ss), "change_settings", "results", Metrics(ss),
                 0, {}, DrawResults)
    ELSE Render(ss, "results", Metrics(ss), 0, {}, DrawResults)

MainArea(ss, ev, rnd) ==
    IF ss.quiz_loaded /\ ~ss.show_result THEN QuestionPage(ss, ev, rnd)
    ELSE IF ss.show_result THEN ResultsPage(ss, ev, rnd)
    ELSE IF ~ss.quiz_loaded THEN Render(ss, "welcome", NoResults, 0, {}, NoWidgets)
    ELSE Render(ss, "blank", NoResults, 0, {}, NoWidgets)

----------------------------------------------------------------------------
(* One run of the script body.  A run that calls st.rerun() ends there.    *)

\* what the run has displayed and done so far, a section later
Sofar(acc, sec, widgets) ==
    [shown |-> acc.shown \cup sec.shown, did |-> acc.did \cup sec.did,
     widgets |-> widgets]

DrawCategory(w, ss) ==
    [w EXCEPT !.rendered = @ \cup {"cat"}, !.cat = TRUE,
              !.cat_value = ss.selected_category]

\* the sheet selectbox as the run drew it, ss being the session the sheet
\* section started with: it holds the entry it returned in this run
DrawSheet(w, rows, ss, ev) ==
    [w EXCEPT !.rendered = @ \cup {"sheet"},
              !.sheet_options = SheetOptions(rows, ss),
              !.sheet_value = IF SheetOptions(rows, ss) = << >> THEN None
                              ELSE SelectedSheetOption(SheetOptions(rows, ss), ss, ev)]

DrawLoad(w, ss) ==
    [w EXCEPT !.rendered = @ \cup {"load"}, !.load = Able(start_disabled(ss))]

\* the widgets of the sidebar and those of the main area
DrawMain(side, main) ==
    [main EXCEPT !.rendered = @ \cup side.rendered,
                 !.cat = side.cat, !.cat_value = side.cat_value,
                 !.sheet_options = side.sheet_options,
                 !.sheet_value = side.sheet_value,
                 !.load = side.load]

\* a section of the sidebar that called st.rerun() ends the run
EndPass(sec, acc) ==
    [ss |-> sec.ss, rerun |-> TRUE, shown |-> acc.shown, drawn |-> sec.drawn,
     did |-> acc.did, screen |-> "sidebar", results |-> NoResults,
     widgets |-> acc.widgets]

\* the main area, after a Load / Restart button that did not rerun
AfterMain(main, acc) ==
    [main EXCEPT !.shown = @ \cup acc.shown, !.did = @ \cup acc.did,
                 !.widgets = DrawMain(acc.widgets, @)]

AfterLoadButton(load, ev, rnd, acc) ==
    IF load.rerun THEN EndPass(load, acc)
    ELSE AfterMain(MainArea(load.ss, ev, rnd), acc)

\* the Load / Restart button, after a sheet section that did not rerun
AfterSheet(rows, sheet, ev, rnd, acc) ==
    IF sheet.rerun THEN EndPass(sheet, acc)
    ELSE AfterLoadButton(LoadButton(rows, sheet.ss, ev, rnd), ev, rnd,
                         Sofar(acc, LoadButton(rows, sheet.ss, ev, rnd),
                               DrawLoad(acc.widgets, sheet.ss)))

\* the sheet section, after a category section that did not rerun
AfterCategory(rows, cat, ev, rnd, acc) ==
    IF cat.rerun THEN EndPass(cat, acc)
    ELSE AfterSheet(rows, SidebarSheet(rows, cat.ss, ev), ev, rnd,
                    Sofar(acc, SidebarSheet(rows, cat.ss, ev),
                          DrawSheet(acc.widgets, rows, cat.ss, ev)))

\* the script after the two loaders: st.stop() when there is no quiz table
AfterLoading(df_all, df_images, ss, ev, rnd) ==
    IF df_all.kind = "raise"
    THEN [ss |-> ss, rerun |-> FALSE, shown |-> Range(df_all.shown), drawn |-> 0,
          did |-> {}, screen |-> "exception", results |-> NoResults,
          widgets |-> NoWidgets]
    ELSE IF df_all.kind = "none"
    THEN [ss |-> ss, rerun |-> FALSE,
          shown |-> Range(df_all.shown) \cup Range(df_images.shown)
                    \cup {"Quiz data could not be loaded. Stopping application."},
          drawn |-> 0, did |-> {}, screen |-> "stopped", results |-> NoResults,
          widgets |-> NoWidgets]
    ELSE AfterCategory(df_all.rows,
                       SidebarCategory(df_all.rows, SetDefaults(ss), ev),
                       ev, rnd,
                       Sofar([shown |-> Range(df_all.shown) \cup Range(df_images.shown),
                              did |-> {}, widgets |-> NoWidgets],
                             SidebarCategory(df_all.rows, SetDefaults(ss), ev),
                             DrawCategory(NoWidgets,
                                 SidebarCategory(df_all.rows, SetDefaults(ss), ev).ss)))

\* the script body, from the two loaders to the last line
Pass(file, images, ss, ev, rnd) ==
    AfterLoading(load_quiz_data(file), load_image_data(images), ss, ev, rnd)

\* the length of the list the run hands to the random generator
FirstDrawn(file, images, ss, ev) == Pass(file, images, ss, ev, Identity(0)).drawn

\* what the browser displays after a run: the widgets the run drew; where a
\* run that ended with st.rerun() drew none, those displayed before it
\* (of the Go-to buttons, those the run did not reach stay as well)
Displayed(before, w, rerun) ==
    [cat |-> IF rerun /\ "cat" \notin w.rendered THEN before.cat ELSE w.cat,
     cat_value |-> IF rerun /\ "cat" \notin w.rendered THEN before.cat_value
                   ELSE w.cat_value,
     sheet_options |-> IF rerun /\ "sheet" \notin w.rendered THEN before.sheet_options
                       ELSE w.sheet_options,
     sheet_value |-> IF rerun /\ "sheet" \notin w.rendered THEN before.sheet_value
                     ELSE w.sheet_value,
     load |-> IF rerun /\ "load" \notin w.rendered THEN before.load ELSE w.load,
     question |-> IF rerun /\ "radio" \notin w.rendered THEN before.question
                  ELSE w.question,
     options |-> IF rerun /\ "radio" \notin w.rendered THEN before.options
                 ELSE w.options,
     choice |-> IF rerun /\ "radio" \notin w.rendered THEN before.choice
                ELSE w.choice,
     previous |-> IF rerun /\ "previous" \notin w.rendered THEN before.previous
                  ELSE w.previous,
     next |-> IF rerun /\ "next" \notin w.rendered THEN before.next ELSE w.next,
     nav |-> IF rerun /\ ("nav" \notin w.rendered \/ w.nav < before.nav)
             THEN before.nav ELSE w.nav,
     finish |-> IF rerun /\ "finish" \notin w.rendered THEN before.finish
                ELSE w.finish,
     results |-> IF rerun /\ "results" \notin w.rendered THEN before.results
                 ELSE w.results]

----------------------------------------------------------------------------
(* The inputs: quiz tables and what the quiz path holds.                   *)

Row(category, sheet, med, question, correct, options) ==
    [Category |-> category, Sheet |-> sheet, MedicationName |-> med,
     Question |-> question, CorrectAnswer |-> correct, Options |-> options]

\* category A has two sheets, category B one; the correct answer is among
\* the options (q1, q3, q5), absent from them (q2) or empty like them (q4)
TableTwoCategories ==
    << Row("A", "s1", "m1", "q1", "x", <<"x", "y", "", "x", "">>),
       Row("B", "s1", "m4", "q4", "", <<"", "", "", "", "">>),
       Row("A", "s1", "m2", "q2", "z", <<"y", "", "", "", "">>),
       Row("A", "s2", "m3", "q3", "y", <<"x", "y", "", "", "">>),
       Row("B", "s1", "m5", "q5", "x", <<"x", "x", "", "", "">>) >>

\* one category with one sheet; both questions have the same correct answer
\* and no other option
TableOneSheet ==
    << Row("B", "s2", "m6", "q6", "y", <<"", "", "y", "", "y">>),
       Row("B", "s2", "m7", "q7", "y", <<"", "", "", "", "">>) >>

\* cells left empty (keep_default_na=False reads them as ''): a category
\* without a name, and a category whose only sheet has no name
TableEmptyNames ==
    << Row("", "s1", "m8", "q8", "x", <<"x", "y", "", "", "">>),
       Row("A", "", "m9", "q9", "y", <<"x", "y", "", "", "">>) >>

\* a header and no rows
TableEmpty == << >>

QuizTables ==
    {TableTwoCategories, TableOneSheet, TableEmptyNames, TableEmpty}

QuizColumns == QuizRequired \cup QuizOptional

Path(exists, utf8, utf8_sig, columns, rows) ==
    [exists |-> exists, utf8 |-> utf8, utf8_sig |-> utf8_sig,
     columns |-> columns, rows |-> rows]

\* the quiz paths of the UI flow: every table read at once, one table read
\* on the retry, and every way of failing
QuizFiles ==
    {Path(TRUE, "ok", "ok", QuizColumns, rows) : rows \in QuizTables}
    \cup {Path(TRUE, "UnicodeDecodeError", "ok", QuizColumns, TableEmptyNames)}
    \cup {Path(FALSE, "ok", "ok", QuizColumns, TableOneSheet)}
    \cup {Path(TRUE, "ok", "ok", QuizColumns \ {c}, TableOneSheet) : c \in QuizRequired}
    \cup {Path(TRUE, "UnicodeDecodeError", "ok", QuizColumns \ {"Sheet"}, TableOneSheet)}
    \cup {Path(TRUE, "UnicodeDecodeError", r, QuizColumns, TableOneSheet) :
             r \in ReadOutcomes \ {"ok"}}
    \cup {Path(TRUE, "ParserError", "ok", QuizColumns, TableOneSheet)}

\* what IMAGE_CSV_PATH can hold: a table that loads, no file, a table
\* without its columns, and a file that cannot be read
ImageFiles ==
    {Path(TRUE, "ok", "ok", ImageRequired, << >>),
     Path(FALSE, "ok", "ok", ImageRequired, << >>),
     Path(TRUE, "ok", "ok", {"category"}, << >>),
     Path(TRUE, "ParserError", "ok", ImageRequired, << >>),
     Path(TRUE, "UnicodeDecodeError", "UnicodeDecodeError", ImageRequired, << >>)}

----------------------------------------------------------------------------
(* Spec: the UI flow.  Init is the session before the first run.           *)

Pending == [done |-> FALSE, value |-> << >>]
Done(value) == [done |-> TRUE, value |-> value]

\* a browser tab that displays nothing
NoPage == Displayed(NoWidgets, NoWidgets, FALSE)

\* every quiz path with an image table that loads; every image path with
\* a quiz path that fails and with the table of the empty names
Init ==
    /\ quiz_file \in QuizFiles
    /\ image_file \in ImageFiles
    /\ \/ image_file = Path(TRUE, "ok", "ok", ImageRequired, << >>)
       \/ load_quiz_data(quiz_file).kind # "df"
       \/ quiz_file = Path(TRUE, "ok", "ok", QuizColumns, TableEmptyNames)
    /\ session_state = << >>
    /\ pending = FALSE
    /\ page = NoPage
    /\ screen = "none"
    /\ event = Ev("none", None, 0)
    /\ did = {}
    /\ results = NoResults
    /\ shown = {}
    /\ pure_fn = "none"
    /\ pure_arg = << >>
    /\ pure_ret = Pending

\* the table the script draws the sidebar and the main area from
df_all_rows == load_quiz_data(quiz_file).rows

\* the outcome of a run becomes the state
Commit(out, ev) ==
    /\ session_state' = out.ss
    /\ pending' = out.rerun
    /\ page' = Displayed(page, out.widgets, out.rerun)
    /\ screen' = out.screen
    /\ results' = out.results
    /\ shown' = out.shown
    /\ event' = ev
    /\ did' = out.did
    /\ UNCHANGED <<quiz_file, image_file, pure_fn, pure_arg, pure_ret>>

\* one run of the script, with the event it receives
Handle(ev) ==
    \E rnd \in Perms(FirstDrawn(quiz_file, image_file, session_state, ev)) :
        Commit(Pass(quiz_file, image_file, session_state, ev, rnd), ev)

\* a run without a widget event: the page is opened, st.rerun() was called,
\* or a widget without a handler (the radio) changed
RunScript == Handle(NoEvent)

\* another entry of the category selectbox on display is chosen
SelectCategory ==
    /\ page.cat
    /\ \E c \in Range(categories_of(df_all_rows)) :
          /\ c # page.cat_value
          /\ Handle(Ev("select_category", c, 0))

\* another entry of the sheet selectbox on display is chosen
SelectSheet ==
    \E o \in Range(page.sheet_options) :
        /\ o # page.sheet_value
        /\ Handle(Ev("select_sheet", o, 0))

\* the Load / Restart Quiz button on display is enabled and clicked
LoadRestart ==
    /\ page.load = "enabled"
    /\ Handle(Ev("load", None, 0))

\* the values the radio on display can hold when Submit Answer is clicked:
\* an option, or None while nothing was chosen
RadioValues(w) ==
    Range(w.options) \cup (IF w.choice = None THEN {None} ELSE {})

Submit ==
    /\ page.question >= 0
    /\ \E user_choice \in RadioValues(page) :
          Handle(Ev("submit", user_choice, page.question))

Previous ==
    /\ page.previous = "enabled"
    /\ Handle(Ev("previous", None, 0))

NextQuestion ==
    /\ page.next = "enabled"
    /\ Handle(Ev("next", None, 0))

GoToQuestion ==
    \E i \in 0..page.nav - 1 : Handle(Ev("goto", None, i))

Finish ==
    /\ page.finish
    /\ Handle(Ev("finish", None, 0))

StartNew ==
    /\ page.results
    /\ Handle(Ev("start_new", None, 0))

ChangeSettingsPressed ==
    /\ page.results
    /\ Handle(Ev("change_settings", None, 0))

Next ==
    \/ RunScript
    \/ SelectCategory
    \/ SelectSheet
    \/ LoadRestart
    \/ Submit
    \/ Previous
    \/ NextQuestion
    \/ GoToQuestion
    \/ Finish
    \/ StartNew
    \/ ChangeSettingsPressed

Spec == Init /\ [][Next]_vars

----------------------------------------------------------------------------
(* SpecPure: the pure helpers and the loaders, applied to bounded inputs.  *)

\* e, E, e acute, E acute, space, no-break space, o with stroke
TextAlphabet == {101, 69, 233, 201, 32, 160, 248}

Strings(n) == UNION {[1..k -> TextAlphabet] : k \in 0..n}

NormalizeArgs == {PyStr(s) : s \in Strings(MaxLen)} \cup {PyNone, PyNaN}

ImageRow(category, filename, raw_url) ==
    [category |-> category, filename |-> filename, raw_url |-> raw_url]

\* 'Vit'
Vit == <<86, 105, 116>>

ImageTables ==
    { << >>,
      \* ('Vit', 'ab.jpg'), (' vit', 'dir/AB.png'), ('Vit', 'Eb.png' with E acute)
      << ImageRow(PyStr(Vit), PyStr(<<97, 98, 46, 106, 112, 103>>), "url1"),
         ImageRow(PyStr(<<32, 118, 105, 116>>),
                  PyStr(<<100, 105, 114, 47, 65, 66, 46, 112, 110, 103>>), "url2"),
         ImageRow(PyStr(Vit), PyStr(<<201, 98, 46, 112, 110, 103>>), "url3") >>,
      \* ('Sirop', 'ab.jpg'), ('Suppositoires', 'noext'), (nan, 'ab.jpg'),
      \* ('Vit', nan), ('Vit', 'x/Ab.tar.gz')
      << ImageRow(PyStr(Sirop), PyStr(<<97, 98, 46, 106, 112, 103>>), "url4"),
         ImageRow(PyStr(Suppositoires), PyStr(<<110, 111, 101, 120, 116>>), "url5"),
         ImageRow(PyNaN, PyStr(<<97, 98, 46, 106, 112, 103>>), "url6"),
         ImageRow(PyStr(Vit), PyNaN, "url7"),
         ImageRow(PyStr(Vit),
                  PyStr(<<120, 47, 65, 98, 46, 116, 97, 114, 46, 103, 122>>), "url8") >> }

\* 'Sirop', 'Antibiotiques', 'Suppositoires', 'Vit', ' vit', '', None
ImageCategories ==
    {PyStr(Sirop), PyStr(Antibiotiques), PyStr(Suppositoires), PyStr(Vit),
     PyStr(<<32, 118, 105, 116>>), PyStr(<< >>), PyNone}

\* 'Comprime', ' Sachet ', 'sirop', 'x', None
ImageSheets ==
    {PyStr(<<67, 111, 109, 112, 114, 105, 109, 101>>),
     PyStr(<<32, 83, 97, 99, 104, 101, 116, 32>>),
     PyStr(sirop), PyStr(<<120>>), PyNone}

\* 'Ab', 'eb' with e acute, 'Zed', 'ab.tar', ' ', '', None
ImageNames ==
    {PyStr(<<65, 98>>), PyStr(<<233, 98>>), PyStr(<<90, 101, 100>>),
     PyStr(<<97, 98, 46, 116, 97, 114>>), PyStr(<<32>>), PyStr(<< >>), PyNone}

ImageArgs ==
    [df_images : ImageTables, category : ImageCategories,
     sheet : ImageSheets, med_name : ImageNames]

\* 'Antibiotiques', 'Sirop', 'Suppositoires', 'sirop', ' Sirop ', 'Vit', '', None
OverrideCategories ==
    {PyStr(Antibiotiques), PyStr(Sirop), PyStr(Suppositoires), PyStr(sirop),
     PyStr(<<32>> \o Sirop \o <<32>>), PyStr(Vit), PyStr(<< >>), PyNone}

\* 'Comprime', ' Sachet ', 'sirop', 'SIROP', 'x', '', None
OverrideSheets ==
    {PyStr(<<67, 111, 109, 112, 114, 105, 109, 101>>),
     PyStr(<<32, 83, 97, 99, 104, 101, 116, 32>>),
     PyStr(sirop), PyStr(<<83, 73, 82, 79, 80>>), PyStr(<<120>>), PyStr(<< >>), PyNone}

\* 'Ab', 'nu', 'Zed', 'eb' with e acute, '5x', ' ab', ' ', '', None
OverrideNames ==
    {PyStr(<<65, 98>>), PyStr(<<110, 117>>), PyStr(<<90, 101, 100>>),
     PyStr(<<233, 98>>), PyStr(<<53, 120>>), PyStr(<<32, 97, 98>>),
     PyStr(<<32>>), PyStr(<< >>), PyNone}

OverrideArgs ==
    [category : OverrideCategories, sheet : OverrideSheets, med_name : OverrideNames]

QuizPaths ==
    [exists : BOOLEAN, utf8 : ReadOutcomes, utf8_sig : ReadOutcomes,
     columns : {QuizOptional \cup present : present \in SUBSET QuizRequired},
     rows : {TableOneSheet}]

ImagePaths ==
    [exists : BOOLEAN, utf8 : ReadOutcomes, utf8_sig : ReadOutcomes,
     columns : SUBSET ImageRequired,
     rows : {<< ImageRow(PyStr(Vit), PyStr(<<97, 98, 46, 106, 112, 103>>), "url1") >>}]

PureArgs(fn) ==
    CASE fn = "normalize_text" -> NormalizeArgs
      [] fn = "get_image_url" -> ImageArgs
      [] fn = "get_override_url" -> OverrideArgs
      [] fn = "load_quiz_data" -> QuizPaths
      [] fn = "load_image_data" -> ImagePaths

PureInit ==
    /\ pure_fn \in {"normalize_text", "get_override_url", "get_image_url",
                    "load_quiz_data", "load_image_data"}
    /\ pure_arg \in PureArgs(pure_fn)
    /\ pure_ret = Pending
    /\ quiz_file = Path(FALSE, "ok", "ok", QuizColumns, TableEmpty)
    /\ image_file = Path(FALSE, "ok", "ok", ImageRequired, << >>)
    /\ session_state = << >>
    /\ pending = FALSE
    /\ page = NoPage
    /\ screen = "none"
    /\ event = Ev("none", None, 0)
    /\ did = {}
    /\ results = NoResults
    /\ shown = {}

Return(value) ==
    /\ ~pure_ret.done
    /\ pure_ret' = Done(value)
    /\ UNCHANGED <<pure_fn, pure_arg, quiz_file, image_file, session_state,
                   pending, page, screen, event, did, results, shown>>

CallNormalizeText ==
    /\ pure_fn = "normalize_text"
    /\ Return(normalize_text(pure_arg))

CallGetOverrideUrl ==
    /\ pure_fn = "get_override_url"
    /\ Return(get_override_url(pure_arg.category, pure_arg.sheet, pure_arg.med_name))

CallGetImageUrl ==
    /\ pure_fn = "get_image_url"
    /\ Return(get_image_url(pure_arg.df_images, pure_arg.category,
                            pure_arg.sheet, pure_arg.med_name))

CallLoadQuizData ==
    /\ pure_fn = "load_quiz_data"
    /\ Return(load_quiz_data(pure_arg))

CallLoadImageData ==
    /\ pure_fn = "load_image_data"
    /\ Return(load_image_data(pure_arg))

PureNext ==
    \/ CallNormalizeText
    \/ CallGetOverrideUrl
    \/ CallGetImageUrl
    \/ CallLoadQuizData
    \/ CallLoadImageData

SpecPure == PureInit /\ [][PureNext]_vars

----------------------------------------------------------------------------
(* The claims.                                                             *)

\* C1: whenever a quiz is loaded and the results are not shown, the question
\* index is within [0, number of questions), and no run takes the 'Invalid
\* question index' branch of the main area.
C1_IndexInRange ==
    /\ "invalid_index" \notin did
    /\ (HasKeys(session_state) /\ session_state.quiz_loaded /\ ~session_state.show_result)
        => /\ 0 <= session_state.question_index
           /\ session_state.question_index < Len(session_state.current_quiz_df)

\* C2: whenever the results page is rendered, the number of correct answers
\* is between 0 and the total, and the total is the number of questions of
\* the quiz (of the quiz as it was, when Change Settings has just emptied it).
C2_ScoreWithinTotal ==
    screen = "results"
        => /\ 0 <= results.correct_count
           /\ results.correct_count <= results.total
           /\ "change_settings" \notin did
                  => results.total = Len(session_state.current_quiz_df)

\* C2 witness: the results page of a quiz of two, both answered correctly
C2_Witness ==
    /\ screen = "results"
    /\ results.total = 2
    /\ results.correct_count = 2

\* C3: every stored option list holds the correct answer of its question
\* exactly once, holds no value twice, and holds the empty string only when
\* the empty string is the correct answer.
C3_OptionsHoldCorrectOnce ==
    HasKeys(session_state) =>
        \A i \in DOMAIN session_state.current_quiz_options :
            /\ i \in 0..Len(session_state.current_quiz_df) - 1
            /\ LET opts == session_state.current_quiz_options[i]
                   correct == Iloc(session_state.current_quiz_df, i).CorrectAnswer
               IN  /\ Cardinality({k \in DOMAIN opts : opts[k] = correct}) = 1
                   /\ \A k, l \in DOMAIN opts : opts[k] = opts[l] => k = l
                   /\ \A k \in DOMAIN opts : opts[k] = "" => correct = ""

\* C3 witness: option lists are stored for q1, whose correct answer is also
\* Option_1 and Option_4, and for q2, whose correct answer is no option
C3_Witness ==
    /\ HasKeys(session_state)
    /\ DOMAIN session_state.current_quiz_options = {0, 1}
    /\ {session_state.current_quiz_df[k].Question : k \in 1..2} = {"q1", "q2"}

\* the code points that differ from c in case or accent only
CaseAccentClass(c) ==
    IF c \in {101, 69, 233, 201} THEN {101, 69, 233, 201}
    ELSE IF c \in {248, 216} THEN {248, 216}
    ELSE {c}

\* C4: normalize_text of its own result is that result; replacing a letter
\* of the input by the same letter in another case or with another accent
\* leaves the result unchanged; an input that is no str gives ''.
C4_NormalizeIdempotentCaseAccent ==
    (pure_fn = "normalize_text" /\ pure_ret.done) =>
        IF IsStr(pure_arg)
        THEN /\ normalize_text(PyStr(pure_ret.value)) = pure_ret.value
             /\ \A i \in 1..Len(pure_arg.v) : \A c \in CaseAccentClass(pure_arg.v[i]) :
                    normalize_text(PyStr([pure_arg.v EXCEPT ![i] = c])) = pure_ret.value
        ELSE pure_ret.value = << >>

\* C4 witness: normalize_text of E acute, e, space has given 'ee'
C4_Witness ==
    /\ pure_fn = "normalize_text"
    /\ pure_ret.done
    /\ pure_arg = PyStr(<<201, 101, 32>>)
    /\ pure_ret.value = <<101, 101>>

\* s with one more space before position i
InsertSpace(s, i) == SubSeq(s, 1, i - 1) \o <<32>> \o SubSeq(s, i, Len(s))

\* C5: doubling a space of the input, or adding a space at either end,
\* leaves the result of normalize_text unchanged.
C5_WhitespaceCollapsed ==
    (pure_fn = "normalize_text" /\ pure_ret.done /\ IsStr(pure_arg)) =>
        /\ normalize_text(PyStr(<<32>> \o pure_arg.v)) = pure_ret.value
        /\ normalize_text(PyStr(pure_arg.v \o <<32>>)) = pure_ret.value
        /\ \A i \in 1..Len(pure_arg.v) :
               pure_arg.v[i] = 32 =>
                   normalize_text(PyStr(InsertSpace(pure_arg.v, i))) = pure_ret.value

\* the rows of the table that match the category and the name
MatchingIndices(a) ==
    {i \in DOMAIN a.df_images :
        /\ normalize_text(a.df_images[i].category) = normalize_text(a.category)
        /\ normalize_text(PyStr(FilenameStem(a.df_images[i].filename)))
               = normalize_text(a.med_name)}

\* C6: get_image_url gives the override URL whenever there is one; else None
\* when the table, the name or the category is empty or no row matches; else
\* the raw_url of the first row whose normalized category and filename stem
\* equal the normalized category and name.
C6_OverrideThenLookup ==
    (pure_fn = "get_image_url" /\ pure_ret.done) =>
        LET a == pure_arg
            override == get_override_url(a.category, a.sheet, a.med_name)
        IN  IF override # None THEN pure_ret.value = override
            ELSE IF a.df_images = << >> \/ ~PyTruthy(a.med_name) \/ ~PyTruthy(a.category)
                    \/ MatchingIndices(a) = {}
            THEN pure_ret.value = None
            ELSE \E i \in MatchingIndices(a) :
                    /\ \A j \in MatchingIndices(a) : i <= j
                    /\ pure_ret.value = a.df_images[i].raw_url

\* C6 witness: category 'Sirop' and name 'Ab' got the Sirop override although
\* the table has a row for them
C6_Witness ==
    /\ pure_fn = "get_image_url"
    /\ pure_ret.done
    /\ pure_ret.value = UrlSirop
    /\ pure_arg.category = PyStr(Sirop)
    /\ pure_arg.med_name = PyStr(<<65, 98>>)
    /\ MatchingIndices(pure_arg) # {}

\* C7: when the quiz file is missing or lacks a required column, the loader
\* returns None and displays its error, and every run stops there: the
\* session state has no key, and no widget of the sidebar or of the main
\* area is drawn.
C7_LoadFailureStops ==
    (screen # "none" /\ (~quiz_file.exists \/ ~(QuizRequired \subseteq quiz_file.columns)))
        => /\ load_quiz_data(quiz_file).kind = "none"
           /\ ~quiz_file.exists => "Quiz data CSV not found" \in shown
           /\ (quiz_file.exists /\ TryRead(quiz_file, "").kind = "df")
                  => "CSV missing required columns" \in shown
           /\ "Quiz data could not be loaded. Stopping application." \in shown
           /\ screen = "stopped"
           /\ ~pending
           /\ ~HasKeys(session_state)
           /\ page = NoPage

\* C7 witness: a run has stopped on a file that lacks the Sheet column
C7_Witness ==
    /\ screen = "stopped"
    /\ event.type = "rerun"
    /\ quiz_file.exists
    /\ quiz_file.utf8 = "ok"
    /\ "Sheet" \notin quiz_file.columns

\* C8: a loader reads as utf-8-sig exactly when the utf-8 read raised
\* UnicodeDecodeError, and never reads a third time; when a read fails for
\* good an error is displayed and the quiz loader returns None, the image
\* loader an empty table with the three columns; no exception leaves it.
C8_RetryOnceCatchAll ==
    (pure_fn \in {"load_quiz_data", "load_image_data"} /\ pure_ret.done) =>
        LET path == pure_arg
            out == pure_ret.value
            failed == path.exists
                      /\ \/ path.utf8 = "ParserError"
                         \/ path.utf8 = "UnicodeDecodeError" /\ path.utf8_sig # "ok"
        IN  /\ out.kind # "raise"
            /\ out.reads = IF ~path.exists THEN << >>
                           ELSE IF path.utf8 = "UnicodeDecodeError"
                           THEN <<"utf-8", "utf-8-sig">>
                           ELSE <<"utf-8">>
            /\ failed =>
                  /\ out.shown # << >>
                  /\ pure_fn = "load_quiz_data" => out.kind = "none"
                  /\ pure_fn = "load_image_data" =>
                         out.kind = "df" /\ out.rows = << >> /\ out.columns = ImageRequired

\* C8 witness: the image loader, both reads raising UnicodeDecodeError, has
\* returned the empty table
C8_Witness ==
    /\ pure_fn = "load_image_data"
    /\ pure_ret.done
    /\ pure_arg.exists
    /\ pure_arg.utf8 = "UnicodeDecodeError"
    /\ pure_arg.utf8_sig = "UnicodeDecodeError"
    /\ pure_ret.value.kind = "df"
    /\ pure_ret.value.rows = << >>

\* where the session is in the UI flow: what the main area renders from it
Mode(ss) ==
    IF ~HasKeys(ss) THEN "selection"
    ELSE IF ss.quiz_loaded /\ ~ss.show_result THEN "question"
    ELSE IF ss.show_result THEN "results"
    ELSE "selection"

\* one run of the script, as C9 allows it
C9_FlowStep ==
    /\ (Mode(session_state) # "question" /\ Mode(session_state') = "question")
           => \/ "load" \in did' /\ ~start_disabled(session_state')
              \/ "start_new" \in did' /\ Mode(session_state) = "results"
    /\ (Mode(session_state) # "results" /\ Mode(session_state') = "results")
           => "finish" \in did' /\ Mode(session_state) = "question"
    /\ (Mode(session_state) = "results" /\ Mode(session_state') # "results")
           => \/ /\ Mode(session_state') = "question"
                 /\ did' \cap {"start_new", "load"} # {}
              \/ /\ Mode(session_state') = "selection"
                 /\ did' \cap {"change_settings", "select_category", "select_sheet"} # {}
    /\ screen' = "question" => Mode(session_state) = "question"
    /\ screen' = "results" => Mode(session_state) = "results"

\* C9: the question loop is entered only by Load / Restart with a category
\* and a sheet selected or by Start New Quiz from the results; the results
\* are entered only by Finish from the question loop; the results are left
\* only for the question loop (Start New Quiz, Load / Restart) or for the
\* selection (Change Settings, a category or sheet change); a question or
\* the results page is rendered only from a session that is there.
C9_UiFlow == [][C9_FlowStep]_vars

\* C9 witness: Finish was pressed with no question answered, and the run
\* that followed rendered the results page
C9_Witness ==
    /\ screen = "results"
    /\ ~pending
    /\ session_state.answers = << >>
    /\ Len(session_state.current_quiz_df) = 2

\* what a category or sheet change leaves of the quiz
QuizStateReset(ss) ==
    /\ ss.question_index = 0
    /\ ss.answers = << >>
    /\ ss.current_quiz_options = << >>
    /\ ss.current_quiz_df = << >>
    /\ ~ss.show_result
    /\ ~ss.quiz_loaded

\* C10: a run that took the category-change, the sheet-change or the
\* auto-select branch leaves the quiz state reset: question_index = 0,
\* answers, options and quiz empty, show_result and quiz_loaded False (after
\* an auto-select the same run may load the quiz of the new sheet, which
\* starts without answers and options), and after a category change
\* selected_sheet is None.
C10_ResetOnSelectionChange ==
    /\ did \cap {"select_category", "select_sheet"} # {}
           => /\ QuizStateReset(session_state)
              /\ "select_category" \in did => session_state.selected_sheet = None
    /\ "auto_select" \in did
           => /\ session_state.question_index = 0
              /\ session_state.answers = << >>
              /\ session_state.current_quiz_options = << >>
              /\ ~session_state.show_result
              /\ "load" \notin did => QuizStateReset(session_state)

\* C10 witness: the sheet s2 was chosen in place of another sheet
C10_Witness ==
    /\ "select_sheet" \in did
    /\ event.value = "s2"
    /\ session_state.selected_sheet = "s2"
    /\ QuizStateReset(session_state)

----------------------------------------------------------------------------
(* The claims about the frame of the events.                               *)

\* the branches that reset the quiz
ResettingBranches ==
    {"load", "start_new", "change_settings", "select_category", "select_sheet",
     "auto_select"}

\* the option lists stored in ss are stored in tt, members and order
OptionsKept(ss, tt) ==
    \A i \in DOMAIN ss.current_quiz_options :
        /\ i \in DOMAIN tt.current_quiz_options
        /\ tt.current_quiz_options[i] = ss.current_quiz_options[i]

\* one run of the script, as C11 allows it
C11_Step ==
    (HasKeys(session_state) /\ did' \cap ResettingBranches = {})
        => OptionsKept(session_state, session_state')

\* C11: once current_quiz_options has an entry for a question index, that
\* list (members and order) is left as it is by every run without an event
\* and by Previous, Next, Go-to-question, Submit and Finish; it is changed
\* or removed only by Load / Restart, Start New Quiz, Change Settings, a
\* category or sheet change.
C11_OptionsShuffledOnce == [][C11_Step]_vars

\* C11 witness: Previous led back to the first question of a quiz of two
\* whose stored option list is not in the order it was generated in
C11_Witness ==
    /\ "previous" \in did
    /\ session_state.question_index = 0
    /\ DOMAIN session_state.current_quiz_options = {0, 1}
    /\ session_state.current_quiz_options[0]
           # AllOptions(Iloc(session_state.current_quiz_df, 0))

\* tt is ss but for the option list of the question ss shows, which the run
\* generates before the radio when the index has no entry yet
SameButNewOptions(ss, tt) ==
    /\ [tt EXCEPT !.current_quiz_options = ss.current_quiz_options] = ss
    /\ OptionsKept(ss, tt)
    /\ DOMAIN tt.current_quiz_options
           \subseteq DOMAIN ss.current_quiz_options \cup {ss.question_index}

\* one run of the script, as C12 allows it
C12_Step ==
    /\ "submit" \in did'
           => /\ SameButNewOptions(session_state,
                     [session_state' EXCEPT !.answers = session_state.answers])
              /\ DOMAIN session_state'.answers
                   = DOMAIN session_state.answers \cup {session_state.question_index}
              /\ \A i \in DOMAIN session_state.answers :
                     i # session_state.question_index
                         => session_state'.answers[i] = session_state.answers[i]
              /\ session_state'.answers[session_state.question_index]
                   \in Range(session_state'.current_quiz_options[session_state.question_index])
                       \cup {None}
              /\ event'.value
                   \in Range(session_state'.current_quiz_options[session_state.question_index])
                     => session_state'.answers[session_state.question_index] = event'.value
    /\ did' \cap {"previous", "next", "goto"} # {}
           => /\ SameButNewOptions(session_state,
                     [session_state' EXCEPT !.question_index = session_state.question_index])
              /\ "previous" \in did'
                     => session_state'.question_index = session_state.question_index - 1
              /\ "next" \in did'
                     => session_state'.question_index = session_state.question_index + 1
              /\ "goto" \in did'
                     => session_state'.question_index = event'.index

\* C12: Submit Answer sets answers[question_index] to the radio choice,
\* replacing an earlier submission, and leaves question_index, the other
\* answers, the options, the quiz, show_result, quiz_loaded, the category and
\* the sheet as they are; Previous, Next and Go-to-question change
\* question_index only (the run that receives the click stores nothing else
\* but the option list of the question it renders, when it has none yet).
C12_SubmitAndNavigationFrame == [][C12_Step]_vars

\* C12 witness: the second question of a quiz of two was answered after the
\* first, whose answer is still stored
C12_Witness ==
    /\ "submit" \in did
    /\ session_state.question_index = 1
    /\ DOMAIN session_state.answers = {0, 1}
    /\ session_state.answers[1] # None

\* how often x occurs in seq
CountIn(seq, x) == Cardinality({k \in DOMAIN seq : seq[k] = x})

\* b holds the items of a, each as often as a does, in some order
IsPermutation(a, b) ==
    /\ Len(a) = Len(b)
    /\ \A x \in Range(a) \cup Range(b) : CountIn(a, x) = CountIn(b, x)

\* a value is selected: neither None nor the empty string (the test of
\* start_disabled)
IsSelected(v) == v \notin {None, ""}

\* the button of a page that was drawn to its end is enabled exactly when a
\* category and a sheet are selected
C13_Enabled ==
    (~pending /\ page.load # "none")
        => (page.load = "enabled"
               <=> /\ IsSelected(session_state.selected_category)
                   /\ IsSelected(session_state.selected_sheet))

\* what C13 says of a run in which Load / Restart Quiz loads the quiz
C13_Step ==
    "load" \in did'
        => /\ IsSelected(session_state'.selected_category)
           /\ IsSelected(session_state'.selected_sheet)
           /\ IsPermutation(Filtered(df_all_rows, session_state'),
                            session_state'.current_quiz_df)
           /\ \A k \in DOMAIN session_state'.current_quiz_df :
                  /\ session_state'.current_quiz_df[k].Category
                       = session_state'.selected_category
                  /\ session_state'.current_quiz_df[k].Sheet
                       = session_state'.selected_sheet
           /\ session_state' = [session_state EXCEPT
                                   !.selected_sheet = session_state'.selected_sheet,
                                   !.current_quiz_df = session_state'.current_quiz_df,
                                   !.question_index = 0,
                                   !.answers = << >>,
                                   !.current_quiz_options = << >>,
                                   !.show_result = FALSE,
                                   !.quiz_loaded = TRUE]

\* C13 as claimed: Load / Restart Quiz is enabled exactly when a category
\* and a sheet are selected; pressing it loads the rows of the table whose
\* Category and Sheet are the selected ones (all of them, each once, in some
\* order, and no other row) with question_index 0, no answers, no options,
\* show_result False and quiz_loaded True; the 'No questions found' and
\* 'Please select both category and sheet' branches are never reached.
C13_LoadSelectedRows ==
    /\ [] C13_Enabled
    /\ [] ("No questions found for this selection." \notin shown)
    /\ [] ("Please select both category and sheet." \notin shown)
    /\ [][C13_Step]_vars

\* a run that displays 'Please select both category and sheet': it follows a
\* run that ended with st.rerun() and receives a click on the button that
\* was displayed enabled, while no sheet is selected
C13_RefusedStep ==
    "Please select both category and sheet." \in shown'
        => /\ pending
           /\ page.load = "enabled"
           /\ event'.type = "load"
           /\ start_disabled(session_state')
           /\ ~session_state'.quiz_loaded

\* C13 as amended: as claimed, but the 'Please select both category and
\* sheet' branch is reached by a click on a Load / Restart Quiz button that
\* is still displayed enabled after a category or sheet change has left no
\* sheet selected, in the run that follows that change; the 'No questions
\* found' branch is never reached.
C13_LoadSelectedRowsOrRefuses ==
    /\ [] C13_Enabled
    /\ [] ("No questions found for this selection." \notin shown)
    /\ [][C13_Step /\ C13_RefusedStep]_vars

\* C13 witness: the two questions of a sheet were loaded in the order
\* opposite to the table's, from a table that holds other sheets as well
C13_Witness ==
    /\ "load" \in did
    /\ Len(df_all_rows) > 2
    /\ Len(session_state.current_quiz_df) = 2
    /\ session_state.current_quiz_df # Filtered(df_all_rows, session_state)
    /\ session_state.current_quiz_options = << >>
    /\ session_state.quiz_loaded

\* one run of the script, as C14 allows it
C14_Step ==
    /\ "start_new" \in did'
           => /\ Mode(session_state) = "results"
              /\ IsPermutation(session_state.current_quiz_df,
                               session_state'.current_quiz_df)
              /\ session_state' = [session_state EXCEPT
                                      !.current_quiz_df = session_state'.current_quiz_df,
                                      !.question_index = 0,
                                      !.answers = << >>,
                                      !.current_quiz_options = << >>,
                                      !.show_result = FALSE,
                                      !.quiz_loaded = TRUE]
    /\ "change_settings" \in did'
           => /\ Mode(session_state) = "results"
              /\ session_state' = [session_state EXCEPT
                                      !.current_quiz_df = << >>,
                                      !.question_index = 0,
                                      !.answers = << >>,
                                      !.current_quiz_options = << >>,
                                      !.show_result = FALSE,
                                      !.quiz_loaded = FALSE]
              /\ ~start_disabled(session_state')
    /\ ("start_new" \in did /\ event'.type = "rerun")
           => /\ screen' = "question"
              /\ session_state'.question_index = 0
    /\ ("change_settings" \in did /\ event'.type = "rerun")
           => /\ screen' = "welcome"
              /\ page'.load = "enabled"
              /\ session_state' = session_state

\* C14: in the results, Start New Quiz keeps the category, the sheet and the
\* set of questions (in a new order) and sets question_index 0, answers and
\* options empty, show_result False, quiz_loaded True, so that the run that
\* follows renders the first question; Change Settings keeps the category
\* and the sheet, empties the quiz and sets quiz_loaded False, so that the
\* run that follows renders the welcome text with Load / Restart enabled.
C14_ResultsButtonsFrame == [][C14_Step]_vars

\* C14 witness: Start New Quiz put the two questions of a quiz in the order
\* opposite to the table's
C14_Witness ==
    /\ "start_new" \in did
    /\ Len(session_state.current_quiz_df) = 2
    /\ session_state.current_quiz_df # Filtered(df_all_rows, session_state)
    /\ session_state.answers = << >>

----------------------------------------------------------------------------
(* The claim about the sheet selection.                                    *)

\* the sheets of the selected category
SelectedCategorySheets(ss) == available_sheets_of(df_all_rows, ss.selected_category)

\* what C15 says of every state after a run that drew the sidebar to its end
C15_State ==
    (~pending /\ page.cat /\ session_state.selected_category # None)
        => LET available_sheets == SelectedCategorySheets(session_state)
           IN  /\ \/ session_state.selected_sheet = None
                   \/ session_state.selected_sheet \in Range(available_sheets)
               /\ Len(available_sheets) = 1
                      => /\ session_state.selected_sheet = available_sheets[1]
                         /\ ~start_disabled(session_state)
               /\ (Len(available_sheets) > 1 /\ session_state.selected_sheet = None)
                      => start_disabled(session_state)

\* what C15 says of the runs
C15_Step ==
    /\ ( /\ HasKeys(session_state)
          /\ session_state.selected_category # None
          /\ Len(SelectedCategorySheets(session_state)) > 1
          /\ session_state.selected_sheet = None
          /\ did' \cap {"select_sheet", "select_category"} = {} )
           => session_state'.selected_sheet = None
    /\ "select_sheet" \in did'
           => session_state'.selected_sheet
                = IF event'.value = SheetPlaceholder THEN None ELSE event'.value

\* C15: a category with exactly one sheet has it selected without user
\* action, so after a run that drew the sidebar to its end that sheet is
\* selected and Load / Restart enabled; with several sheets selected_sheet
\* stays None, and Load / Restart disabled, until the user chooses an entry
\* other than the placeholder, and the placeholder sets it back to None;
\* selected_sheet is always None or a sheet of the selected category.
C15_SheetFollowsCategory == [] C15_State /\ [][C15_Step]_vars

----------------------------------------------------------------------------
(* The claim about the override rules.                                     *)

\* the text of an argument of get_override_url: '' for None and ''
TextOf(x) == IF PyTruthy(x) THEN PyToStr(x) ELSE << >>

\* the first character of a name, upper-cased, is between 'A' and 'N'
FirstLetterAToN(name) ==
    /\ name # << >>
    /\ \E c \in 65..78 : UpperChar(name[1]) = <<c>>

\* the rule table for a category, a sheet and a name given as text
RuleTable(cat, sheet, name) ==
    CASE cat = Antibiotiques /\ Lower(Strip(sheet)) = comprime -> UrlAntibiotiquesComprime
      [] cat = Antibiotiques /\ Lower(Strip(sheet)) = sachet -> UrlAntibiotiquesSachet
      [] cat = Antibiotiques /\ Lower(Strip(sheet)) = sirop -> UrlAntibiotiquesSirop
      [] cat = Sirop -> UrlSirop
      [] cat = Suppositoires /\ FirstLetterAToN(name) -> UrlSuppositoires
      [] cat = Suppositoires /\ name # << >> /\ ~FirstLetterAToN(name) -> UrlSuppositoires2
      [] OTHER -> None

\* C16 as claimed: get_override_url gives what the rule table gives for the
\* category as it is passed, the sheet without case and surrounding spaces,
\* and the name as it is passed.
C16_RuleTableAsPassed ==
    (pure_fn = "get_override_url" /\ pure_ret.done)
        => pure_ret.value = RuleTable(TextOf(pure_arg.category),
                                      TextOf(pure_arg.sheet),
                                      TextOf(pure_arg.med_name))

\* C16 as amended: get_override_url gives what the rule table gives for the
\* category and the name without their surrounding spaces and the sheet
\* without case and surrounding spaces.
C16_RuleTableStripped ==
    (pure_fn = "get_override_url" /\ pure_ret.done)
        => pure_ret.value = RuleTable(Strip(TextOf(pure_arg.category)),
                                      TextOf(pure_arg.sheet),
                                      Strip(TextOf(pure_arg.med_name)))

\* C16 witness: get_override_url('Suppositoires', ' Sachet ', ' ab') gave
\* the first Suppositoires URL
C16_Witness ==
    /\ pure_fn = "get_override_url"
    /\ pure_ret.done
    /\ pure_arg.category = PyStr(Suppositoires)
    /\ pure_arg.sheet = PyStr(<<32, 83, 97, 99, 104, 101, 116, 32>>)
    /\ pure_arg.med_name = PyStr(<<32, 97, 98>>)
    /\ pure_ret.value = UrlSuppositoires

----------------------------------------------------------------------------
(* The claims about the stored answers and the results.                    *)

\* the questions that have an answer stored are questions that have options
\* stored, the options are those of questions of the quiz, and an answer is
\* None or one of the options of its question
AnswersAmongOptions(ss) ==
    /\ DOMAIN ss.answers \subseteq DOMAIN ss.current_quiz_options
    /\ DOMAIN ss.current_quiz_options \subseteq 0..Len(ss.current_quiz_df) - 1
    /\ \A i \in DOMAIN ss.answers :
           \/ ss.answers[i] = None
           \/ ss.answers[i] \in Range(ss.current_quiz_options[i])

\* C17: after every run the keys of answers are keys of
\* current_quiz_options, which are indices of current_quiz_df, and every
\* stored answer is None or a member of the option list of its question.
C17_AnswersAmongOptions ==
    HasKeys(session_state) => AnswersAmongOptions(session_state)

\* C17 witness: of a quiz of two, one question was submitted with no choice
\* made and the other with an option chosen
C17_Witness ==
    /\ HasKeys(session_state)
    /\ DOMAIN session_state.answers = {0, 1}
    /\ session_state.answers[0] = None
    /\ session_state.answers[1] \in Range(session_state.current_quiz_options[1])

\* C18: whenever the results page is rendered, the numbers of correct,
\* incorrect and unanswered questions are at least 0 and add up to the total.
C18_CountsPartition ==
    screen = "results"
        => /\ results.correct_count >= 0
           /\ results.incorrect_count >= 0
           /\ results.unanswered_count >= 0
           /\ results.correct_count + results.incorrect_count
                 + results.unanswered_count = results.total

\* C18 witness: the results of a quiz of two: one answer incorrect, one
\* question without an answer
C18_Witness ==
    /\ screen = "results"
    /\ results.correct_count = 0
    /\ results.incorrect_count = 1
    /\ results.unanswered_count = 1

----------------------------------------------------------------------------
(* The claim about the runs without an event.                              *)

\* tt is ss but for the sheet, selected because it is the only one of the
\* category, and the option list of the question shown
FillsInOnly(ss, tt) ==
    /\ [tt EXCEPT !.selected_sheet = ss.selected_sheet,
                  !.current_quiz_options = ss.current_quiz_options] = ss
    /\ tt.selected_sheet # ss.selected_sheet
           => /\ Len(available_sheets_of(df_all_rows, ss.selected_category)) = 1
              /\ tt.selected_sheet = available_sheets_of(df_all_rows, ss.selected_category)[1]
    /\ OptionsKept(ss, tt)
    /\ DOMAIN tt.current_quiz_options
           \subseteq DOMAIN ss.current_quiz_options \cup {tt.question_index}

\* a run without an event, as C19 claims it: it runs to the last line and
\* fills in the sheet and the option list at most; after a run that ran to
\* the last line it changes nothing.  A session without keys is read as
\* holding the defaults that lines 168-179 give it
C19_Step ==
    event'.type = "rerun"
        => /\ ~pending'
           /\ FillsInOnly(SetDefaults(session_state), SetDefaults(session_state'))
           /\ ~pending => SetDefaults(session_state') = SetDefaults(session_state)

\* C19: from every reachable state, a run without an event is a complete
\* pass that fills in the auto-selected sheet and the option list of the
\* current question at most, and a second such run changes no session
\* variable.
C19_RerunSettles == [][C19_Step]_vars

\* the question index of a loaded quiz is outside the quiz
IndexOutside(ss) ==
    /\ ss.quiz_loaded
    /\ ~ss.show_result
    /\ ~(0 <= ss.question_index /\ ss.question_index < Len(ss.current_quiz_df))

\* the first run of a session whose table has a category: the category
\* selectbox returns the first category while None is stored
FirstSelection(ss) ==
    /\ ~HasKeys(ss)
    /\ load_quiz_data(quiz_file).kind = "df"
    /\ categories_of(df_all_rows) # << >>

\* a run without an event, as the script does it: from an index outside the
\* quiz the invalid-index branch, on the first run of a session the category
\* reset, each ending with st.rerun(); from every other session as C19 says
RerunStep ==
    event'.type = "rerun"
        => IF IndexOutside(SetDefaults(session_state))
           THEN /\ pending'
                /\ session_state' = [session_state EXCEPT !.question_index = 0,
                                                          !.quiz_loaded = FALSE]
           ELSE IF FirstSelection(session_state)
           THEN /\ pending'
                /\ session_state' =
                       [default_values EXCEPT
                           !.selected_category = categories_of(df_all_rows)[1]]
           ELSE C19_Step

\* what the runs without an event do in every behaviour
RerunsAsCoded == [][RerunStep]_vars

====
